---- MODULE Spec2Model ----
(***************************************************************************)
(* Model of alphasim/portfolio.py: to_weights, distribute and allocate.    *)
(*                                                                         *)
(* Numbers are floats read as extended rationals <<n, d>>:                 *)
(*   d > 0  the rational n/d in lowest terms,                              *)
(*   <<0,0>> NaN, <<1,0>> +inf, <<-1,0>> -inf.                             *)
(* Arithmetic is exact (no rounding); NaN and the infinities follow the    *)
(* IEEE rules numpy and pandas apply.  A vector (pd.Series / np.ndarray)   *)
(* is a function from instrument labels to numbers.                        *)
(***************************************************************************)
EXTENDS Integers, FiniteSets, Sequences, TLC

VARIABLES
    pc,                     \* which call is pending / has returned
    capital, price, marked_portfolio, target_weight,
    trade_buffer, ignore_buffer_on_new, liquidate_on_nan,
    result,                 \* the tuple returned by the latest allocate call
    first,                  \* the tuple returned by the first allocate call
    weights, max_weight, dist,      \* distribute: arguments and result.x
    scores, norm                    \* to_weights: argument and return value

vars == <<pc, capital, price, marked_portfolio, target_weight, trade_buffer,
          ignore_buffer_on_new, liquidate_on_nan, result, first,
          weights, max_weight, dist, scores, norm>>

allocVars == <<capital, price, marked_portfolio, target_weight, trade_buffer,
               ignore_buffer_on_new, liquidate_on_nan, result, first>>
distVars == <<weights, max_weight, dist>>
normVars == <<scores, norm>>

---------------------------------------------------------------------------
(* Bounds of the model. *)

\* marked_portfolio entries are whole dollars in -MaxExposure..MaxExposure
MaxExposure == 1
\* target_weight entries are k/2 for k in -MaxTarget..MaxTarget, or NaN
MaxTarget == 1
\* trade_buffer is k/2 for k in 0..MaxBuffer
MaxBuffer == 1
\* distribute: weights and caps lie on the grid k/GridSteps
GridSteps == 4
\* to_weights: scores are integers in -MaxScore..MaxScore
MaxScore == 2

\* instruments of an allocate call, and of a distribute / to_weights call
Book == {"A", "B"}
Instruments == {"A", "B", "C"}

---------------------------------------------------------------------------
(* Float arithmetic. *)

NaN == <<0, 0>>
Inf == <<1, 0>>
NInf == <<-1, 0>>
Zero == <<0, 1>>
One == <<1, 1>>

IAbs(n) == IF n < 0 THEN -n ELSE n
ISgn(n) == IF n < 0 THEN -1 ELSE IF n > 0 THEN 1 ELSE 0

RECURSIVE Gcd(_, _)
Gcd(a, b) == IF b = 0 THEN a ELSE Gcd(b, a % b)

\* the rational n/d, d > 0, in lowest terms
Rat(n, d) == LET g == Gcd(IAbs(n), d) IN <<n \div g, d \div g>>

IsNaN(a) == a = NaN
IsFinite(a) == a[2] > 0

FNeg(a) == <<-a[1], a[2]>>
FAbs(a) == <<IAbs(a[1]), a[2]>>

FAdd(a, b) ==
    IF IsNaN(a) \/ IsNaN(b) THEN NaN
    ELSE IF IsFinite(a) /\ IsFinite(b)
         THEN Rat(a[1] * b[2] + b[1] * a[2], a[2] * b[2])
    ELSE IF IsFinite(a) THEN b
    ELSE IF IsFinite(b) THEN a
    ELSE IF a = b THEN a ELSE NaN

FSub(a, b) == FAdd(a, FNeg(b))

FMul(a, b) ==
    IF IsNaN(a) \/ IsNaN(b) THEN NaN
    ELSE IF IsFinite(a) /\ IsFinite(b) THEN Rat(a[1] * b[1], a[2] * b[2])
    ELSE IF a[1] = 0 \/ b[1] = 0 THEN NaN
    ELSE <<ISgn(a[1]) * ISgn(b[1]), 0>>

\* numpy division: x/0 is +-inf for x # 0 and NaN for x = 0, no exception
FDiv(a, b) ==
    IF IsNaN(a) \/ IsNaN(b) THEN NaN
    ELSE IF IsFinite(b) /\ b[1] # 0
         THEN IF IsFinite(a)
              THEN Rat(ISgn(b[1]) * a[1] * b[2], a[2] * IAbs(b[1]))
              ELSE <<a[1] * ISgn(b[1]), 0>>
    ELSE IF IsFinite(b)
         THEN IF a[1] = 0 THEN NaN ELSE <<ISgn(a[1]), 0>>
    ELSE IF IsFinite(a) THEN Zero ELSE NaN

\* comparisons: every comparison with NaN is false
FLt(a, b) ==
    /\ ~IsNaN(a) /\ ~IsNaN(b)
    /\ IF IsFinite(a) /\ IsFinite(b) THEN a[1] * b[2] < b[1] * a[2]
       ELSE a # b /\ (a = NInf \/ b = Inf)
FGt(a, b) == FLt(b, a)
FEq(a, b) == ~IsNaN(a) /\ ~IsNaN(b) /\ a = b
FLe(a, b) == FLt(a, b) \/ FEq(a, b)

\* np.copysign(a, s): the magnitude of a with the sign of s
CopySign(a, s) == IF s[1] < 0 THEN FNeg(FAbs(a)) ELSE FAbs(a)

\* Series.sum(): NaN entries are skipped
RECURSIVE SumOver(_, _)
SumOver(v, S) ==
    IF S = {} THEN Zero
    ELSE LET i == CHOOSE j \in S : TRUE
             rest == SumOver(v, S \ {i})
         IN IF IsNaN(v[i]) THEN rest ELSE FAdd(v[i], rest)
Sum(v) == SumOver(v, DOMAIN v)

\* np.sum(): NaN propagates
RECURSIVE NpSumOver(_, _)
NpSumOver(v, S) ==
    IF S = {} THEN Zero
    ELSE LET i == CHOOSE j \in S : TRUE
         IN FAdd(v[i], NpSumOver(v, S \ {i}))
NpSum(v) == NpSumOver(v, DOMAIN v)

VAbs(v) == [i \in DOMAIN v |-> FAbs(v[i])]

Empty == [i \in {} |-> Zero]

---------------------------------------------------------------------------
(* to_weights *)

\* mutation: the divisor is the signed sum x.sum() instead of x.abs().sum()
to_weights_signed_sum(v) ==
    LET total == Sum(v)
        w == [i \in DOMAIN v |-> FDiv(FAbs(v[i]), total)]
    IN [i \in DOMAIN v |-> CopySign(w[i], v[i])]

to_weights(v) ==
    LET w0 == VAbs(v)
        total == Sum(w0)
        w == [i \in DOMAIN v |-> FDiv(w0[i], total)]
    IN [i \in DOMAIN v |-> CopySign(w[i], v[i])]

ScoreValues == {<<k, 1>> : k \in -MaxScore..MaxScore}

InitToWeights ==
    /\ pc = "norm_input"
    /\ scores \in [Instruments -> ScoreValues]
    /\ norm = Empty
    /\ capital = One /\ price = Empty /\ marked_portfolio = Empty
    /\ target_weight = Empty /\ trade_buffer = Zero
    /\ ignore_buffer_on_new = FALSE /\ liquidate_on_nan = FALSE
    /\ result = Empty /\ first = Empty
    /\ weights = Empty /\ max_weight = One /\ dist = Empty

ToWeights ==
    /\ pc = "norm_input"
    /\ norm' = to_weights(scores)
    /\ pc' = "norm_done"
    /\ UNCHANGED <<scores, allocVars, distVars>>

SpecToWeights == InitToWeights /\ [][ToWeights]_vars

\* the sign of a float as -1, 0, 1
FSgn(a) == ISgn(a[1])

\* C9: for every score vector whose absolute sum is nonzero, to_weights
\* returns w with sum |w_i| = 1, sign(w_i) = sign(score_i) for every nonzero
\* score, and w_i = sign(score_i) * |score_i| / sum |score|.
C9_Normalized ==
    (pc = "norm_done" /\ Sum(VAbs(scores)) # Zero) =>
        /\ Sum(VAbs(norm)) = One
        /\ \A i \in Instruments :
              /\ scores[i] # Zero => FSgn(norm[i]) = FSgn(scores[i])
              /\ norm[i] = FMul(<<FSgn(scores[i]), 1>>,
                                FDiv(FAbs(scores[i]), Sum(VAbs(scores))))

\* a mixed-sign score vector has been normalised
C9_Witness ==
    /\ pc = "norm_done"
    /\ \E i, j \in Instruments : FSgn(scores[i]) = 1 /\ FSgn(scores[j]) = -1
    /\ \E i \in Instruments : norm[i] # Zero /\ norm[i] # scores[i]

---------------------------------------------------------------------------
(* distribute *)

\* objective(x) = np.sum(np.square(x - weights))
objective(xs, ws) == NpSum([i \in DOMAIN xs |-> FMul(FSub(xs[i], ws[i]), FSub(xs[i], ws[i]))])

\* np.amax over a vector
Amax(v) == CHOOSE m \in {v[i] : i \in DOMAIN v} : \A j \in DOMAIN v : FLe(v[j], m)

\* mutation: the cap is applied to the total instead of the largest entry
ineq_constraint_sum(xs, cap) == FSub(cap, NpSum(VAbs(xs)))

\* {"type": "ineq"}: max_weight - np.amax(np.abs(x)), required >= 0
ineq_constraint(xs, cap) == FSub(cap, Amax(VAbs(xs)))

\* mutation: the total is fixed to 1 (the docstring's assumption) instead of
\* to the total of the given weights
eq_constraint_unit(xs, ws) == FSub(NpSum(xs), One)

\* {"type": "eq"}: np.sum(x) - np.sum(weights), required = 0
eq_constraint(xs, ws) == FSub(NpSum(xs), NpSum(ws))

\* bounds = [(0, 1) for i in range(len(weights))]
bounds(ws) == [i \in DOMAIN ws |-> [lo |-> Zero, hi |-> One]]

InBounds(xs, ws) ==
    \A i \in DOMAIN ws : FLe(bounds(ws)[i].lo, xs[i]) /\ FLe(xs[i], bounds(ws)[i].hi)

Feasible(xs, ws, cap) ==
    /\ InBounds(xs, ws)
    /\ FLe(Zero, ineq_constraint(xs, cap))
    /\ eq_constraint(xs, ws) = Zero

(* The points at which the optimum of the convex problem can lie: every     *)
(* entry is pinned at a bound (lo, hi), pinned at the cap, or free, and the  *)
(* free entries are the given weights shifted by one common amount chosen   *)
(* so that the total is that of the given weights (the stationarity         *)
(* condition of the quadratic objective under the one equality constraint). *)
Pinned(a, i, ws, cap) ==
    IF a[i] = "lo" THEN bounds(ws)[i].lo
    ELSE IF a[i] = "hi" THEN bounds(ws)[i].hi
    ELSE cap

Candidate(a, ws, cap) ==
    LET free == {i \in DOMAIN ws : a[i] = "free"}
        pin == [i \in DOMAIN ws |-> IF i \in free THEN Zero ELSE Pinned(a, i, ws, cap)]
        rest == FSub(NpSum(ws), NpSum(pin))
        freeSum == NpSumOver(ws, free)
        shift == IF free = {} THEN Zero
                 ELSE FDiv(FSub(rest, freeSum), <<Cardinality(free), 1>>)
    IN [i \in DOMAIN ws |-> IF i \in free THEN FAdd(ws[i], shift) ELSE pin[i]]

Candidates(ws, cap) ==
    {Candidate(a, ws, cap) : a \in [DOMAIN ws -> {"lo", "hi", "cap", "free"}]}

\* the points of the box on the model's grid: what the solver may return
\* when no point satisfies the constraints
BoxGrid(ws) == [DOMAIN ws -> {Rat(k, GridSteps) : k \in 0..GridSteps}]

\* result = minimize(objective, weights, bounds=bounds, constraints=constraints);
\* the set of vectors result.x can be
minimize(ws, cap) ==
    LET feas == {c \in Candidates(ws, cap) : Feasible(c, ws, cap)}
    IN IF feas # {}
       THEN {c \in feas : \A e \in feas : FLe(objective(c, ws), objective(e, ws))}
       ELSE BoxGrid(ws)

distribute(ws, cap) == minimize(ws, cap)

WeightValues == {Rat(k, GridSteps) : k \in -1..GridSteps}
CapValues == {Rat(k, GridSteps) : k \in 1..GridSteps}

InitDistribute ==
    /\ pc = "dist_input"
    /\ weights \in [Instruments -> WeightValues]
    /\ max_weight \in CapValues
    /\ dist = Empty
    /\ capital = One /\ price = Empty /\ marked_portfolio = Empty
    /\ target_weight = Empty /\ trade_buffer = Zero
    /\ ignore_buffer_on_new = FALSE /\ liquidate_on_nan = FALSE
    /\ result = Empty /\ first = Empty
    /\ scores = Empty /\ norm = Empty

Distribute ==
    /\ pc = "dist_input"
    /\ \E r \in distribute(weights, max_weight) : dist' = r
    /\ pc' = "dist_done"
    /\ UNCHANGED <<weights, max_weight, allocVars, normVars>>

SpecDistribute == InitDistribute /\ [][Distribute]_vars

\* the preconditions the claims about distribute use
UnitWeights == \A i \in Instruments : FLe(Zero, weights[i]) /\ FLe(weights[i], One)
FeasiblePair ==
    /\ UnitWeights
    /\ FLe(NpSum(weights), FMul(<<Cardinality(Instruments), 1>>, max_weight))
CapSatisfied == \A i \in Instruments : FLe(FAbs(weights[i]), max_weight)

C7_IdentityAnyInput ==
    (pc = "dist_done" /\ CapSatisfied) => dist = weights

\* C7 amended: for every weight vector with entries in [0,1] and cap with
\* cap >= max |weights_i| the returned vector equals the input weights.
C7_IdentityUnitWeights ==
    (pc = "dist_done" /\ CapSatisfied /\ UnitWeights) => dist = weights

\* nonzero weights in [0,1] under a cap their total exceeds were returned
C7_Witness ==
    /\ pc = "dist_done" /\ CapSatisfied /\ UnitWeights
    /\ FGt(NpSum(weights), max_weight)
    /\ \A i \in Instruments : weights[i] # Zero
    /\ dist = weights

\* the instruments the excess goes to: input weight positive and within the
\* cap, output below the cap
Uncapped ==
    {i \in Instruments : /\ FLt(Zero, weights[i]) /\ FLe(weights[i], max_weight)
                         /\ FLt(dist[i], max_weight)}

\* C8: when some input weights exceed max_weight and the problem is feasible,
\* the excess is distributed in proportion to the input weights: the increase
\* of every uncapped instrument divided by its input weight is the same.
C8_ProportionalExcess ==
    (/\ pc = "dist_done" /\ FeasiblePair
     /\ \E i \in Instruments : FGt(weights[i], max_weight)) =>
        \A i, j \in Uncapped :
            FDiv(FSub(dist[i], weights[i]), weights[i])
                = FDiv(FSub(dist[j], weights[j]), weights[j])

---------------------------------------------------------------------------
(* allocate *)

\* mutation: the band is one-sided, a start weight above the band is kept
buffered_target_lower_only(t, y, b) ==
    IF FLt(y, FSub(t, b)) THEN FSub(t, b) ELSE y

\* mutation: only the upper edge of the band is tested
buffered_target_upper_only(t, y, b) ==
    IF FGt(y, FAdd(t, b)) THEN FAdd(t, b) ELSE y

\* _buffered_target(x, y, b): both tests run in order, the second one wins
buffered_target(t, y, b) ==
    LET target1 == IF FLt(y, FSub(t, b)) THEN FSub(t, b) ELSE y
    IN IF FGt(y, FAdd(t, b)) THEN FAdd(t, b) ELSE target1

\* mutation: the mask tests the band only, an open position is overridden too
new_mask_any_position(tw, sw, b) == [i \in DOMAIN tw |-> FLe(FAbs(tw[i]), b)]

\* mask = target_weight.abs().le(trade_buffer) & start_weight.eq(0)
new_mask(tw, sw, b) ==
    [i \in DOMAIN tw |-> FLe(FAbs(tw[i]), b) /\ FEq(sw[i], Zero)]

\* mutation: every open position is liquidated, with or without a view
nan_mask_any_target(tw, sw) == [i \in DOMAIN tw |-> FGt(FAbs(sw[i]), Zero)]

\* mutation: abs() is dropped, short positions are never liquidated
nan_mask_long_only(tw, sw) == [i \in DOMAIN tw |-> IsNaN(tw[i]) /\ FGt(sw[i], Zero)]

\* mask = target_weight.isna() & start_weight.abs().gt(0)
nan_mask(tw, sw) ==
    [i \in DOMAIN tw |-> IsNaN(tw[i]) /\ FGt(FAbs(sw[i]), Zero)]

\* mutation: the fill is skipped
fillna_skipped(v, fill) == v

\* Series.fillna(fill): NaN entries are replaced, infinite ones are not
fillna(v, fill) == [i \in DOMAIN v |-> IF IsNaN(v[i]) THEN fill ELSE v[i]]

allocate(cap, pr, mp, tw, b, ignore_new, liquidate) ==
    LET start_weight == [i \in DOMAIN mp |-> FDiv(mp[i], cap)]
        buffered == [i \in DOMAIN tw |-> buffered_target(tw[i], start_weight[i], b)]
        m1 == new_mask(tw, start_weight, b)
        adj1 == IF ignore_new
                THEN [i \in DOMAIN tw |-> IF m1[i] THEN tw[i] ELSE buffered[i]]
                ELSE buffered
        m2 == nan_mask(tw, start_weight)
        adj_target_weight ==
            IF liquidate
            THEN [i \in DOMAIN tw |-> IF m2[i] THEN Zero ELSE adj1[i]]
            ELSE adj1
        adj_delta_weight ==
            [i \in DOMAIN tw |-> FSub(adj_target_weight[i], start_weight[i])]
        trade_value == [i \in DOMAIN tw |-> FMul(adj_delta_weight[i], cap)]
        trade_size == fillna([i \in DOMAIN tw |-> FDiv(trade_value[i], pr[i])], Zero)
    IN [start_weight |-> start_weight, target_weight |-> tw,
        adj_target_weight |-> adj_target_weight,
        adj_delta_weight |-> adj_delta_weight,
        trade_size |-> trade_size, trade_value |-> trade_value]

CapitalValues == {<<1, 1>>, <<2, 1>>}
PriceValues == {NaN, Zero, <<2, 1>>}
ExposureValues == {<<k, 1>> : k \in -MaxExposure..MaxExposure}
TargetValues == {Rat(k, 2) : k \in -MaxTarget..MaxTarget} \cup {NaN}
BufferValues == {Rat(k, 2) : k \in 0..MaxBuffer}

InitAllocate ==
    /\ pc = "alloc_input"
    /\ capital \in CapitalValues
    /\ price \in [Book -> PriceValues]
    /\ marked_portfolio \in [Book -> ExposureValues]
    /\ target_weight \in [Book -> TargetValues]
    /\ trade_buffer \in BufferValues
    /\ ignore_buffer_on_new \in BOOLEAN
    /\ liquidate_on_nan \in BOOLEAN
    /\ result = Empty /\ first = Empty
    /\ weights = Empty /\ max_weight = One /\ dist = Empty
    /\ scores = Empty /\ norm = Empty

\* a call of allocate on the current holdings
Allocate ==
    /\ pc \in {"alloc_input", "executed"}
    /\ result' = allocate(capital, price, marked_portfolio, target_weight,
                          trade_buffer, ignore_buffer_on_new, liquidate_on_nan)
    /\ first' = IF pc = "alloc_input" THEN result' ELSE first
    /\ pc' = IF pc = "alloc_input" THEN "allocated" ELSE "reallocated"
    /\ UNCHANGED <<capital, price, marked_portfolio, target_weight, trade_buffer,
                   ignore_buffer_on_new, liquidate_on_nan, distVars, normVars>>

\* the caller executes the returned trade: every exposure moves by trade_value
Execute ==
    /\ pc = "allocated"
    /\ marked_portfolio' =
          [i \in Book |-> FAdd(marked_portfolio[i], result.trade_value[i])]
    /\ pc' = "executed"
    /\ UNCHANGED <<capital, price, target_weight, trade_buffer,
                   ignore_buffer_on_new, liquidate_on_nan, result, first,
                   distVars, normVars>>

NextAllocate == Allocate \/ Execute

SpecAllocate == InitAllocate /\ [][NextAllocate]_vars

Init == InitAllocate \/ InitDistribute \/ InitToWeights
Next == Allocate \/ Execute \/ Distribute \/ ToWeights
Spec == Init /\ [][Next]_vars

\* allocate has returned for the current holdings
Returned == pc \in {"allocated", "reallocated"}

\* start_weight_i = marked_portfolio_i / capital
StartWeight(i) == FDiv(marked_portfolio[i], capital)

\* C1: with both flags false, capital > 0 and trade_buffer >= 0, for every
\* instrument adjusted_target_weight is target_weight - trade_buffer when
\* start_weight < target_weight - trade_buffer, target_weight + trade_buffer
\* when start_weight > target_weight + trade_buffer, and start_weight otherwise.
C1_Band ==
    (Returned /\ ~ignore_buffer_on_new /\ ~liquidate_on_nan) =>
        \A i \in Book :
            LET lower == FSub(target_weight[i], trade_buffer)
                upper == FAdd(target_weight[i], trade_buffer)
            IN result.adj_target_weight[i] =
                  IF FLt(StartWeight(i), lower) THEN lower
                  ELSE IF FGt(StartWeight(i), upper) THEN upper
                  ELSE StartWeight(i)

\* one instrument was pulled up to the lower edge and another down to the
\* upper edge of a band of positive width
C1_Witness ==
    /\ Returned /\ ~ignore_buffer_on_new /\ ~liquidate_on_nan
    /\ FGt(trade_buffer, Zero)
    /\ \E i, j \in Book :
          /\ FLt(StartWeight(i), FSub(target_weight[i], trade_buffer))
          /\ result.adj_target_weight[i] = FSub(target_weight[i], trade_buffer)
          /\ FGt(StartWeight(j), FAdd(target_weight[j], trade_buffer))
          /\ result.adj_target_weight[j] = FAdd(target_weight[j], trade_buffer)

\* C2: for every instrument whose price is undefined or zero and whose
\* adjusted_delta_weight is nonzero, trade_size is 0 while trade_value still
\* equals adjusted_delta_weight * capital.
C2_NoTradeWithoutPrice ==
    Returned =>
        \A i \in Book :
            (/\ price[i] \in {NaN, Zero}
             /\ result.adj_delta_weight[i] # Zero) =>
                /\ result.trade_size[i] = Zero
                /\ result.trade_value[i] = FMul(result.adj_delta_weight[i], capital)

\* what steps 2 and 3 leave for instrument i: the buffered target, or the raw
\* target where ignore_buffer_on_new opens a new position
BeforeLiquidation(i) ==
    IF /\ ignore_buffer_on_new
       /\ FLe(FAbs(target_weight[i]), trade_buffer)
       /\ StartWeight(i) = Zero
    THEN target_weight[i]
    ELSE buffered_target(target_weight[i], StartWeight(i), trade_buffer)

\* C3: with liquidate_on_nan, every instrument whose target_weight is
\* undefined and whose start_weight is nonzero has adjusted_target_weight 0
\* and trade_value -start_weight * capital; every other instrument keeps the
\* adjusted target of the buffering step.
C3_LiquidateOnNan ==
    (Returned /\ liquidate_on_nan) =>
        \A i \in Book :
            IF IsNaN(target_weight[i]) /\ StartWeight(i) # Zero
            THEN /\ result.adj_target_weight[i] = Zero
                 /\ result.trade_value[i] = FMul(FNeg(StartWeight(i)), capital)
            ELSE result.adj_target_weight[i] = BeforeLiquidation(i)

\* a short position without a view was liquidated beside an instrument that
\* kept a nonzero adjusted target
C3_Witness ==
    /\ Returned /\ liquidate_on_nan
    /\ \E i, j \in Book :
          /\ IsNaN(target_weight[i]) /\ FLt(StartWeight(i), Zero)
          /\ result.adj_target_weight[i] = Zero
          /\ FGt(result.trade_value[i], Zero)
          /\ ~IsNaN(target_weight[j])
          /\ result.adj_target_weight[j] # Zero

\* the adjusted targets of the same call with ignore_buffer_on_new negated
OtherFlagTarget ==
    allocate(capital, price, marked_portfolio, target_weight, trade_buffer,
             ~ignore_buffer_on_new, liquidate_on_nan).adj_target_weight

\* C4: with trade_buffer > 0, every instrument with start_weight = 0 and
\* |target_weight| <= trade_buffer has adjusted_target_weight = target_weight
\* when ignore_buffer_on_new is true and 0 when it is false; instruments with
\* start_weight # 0 are unaffected by the flag.
C4_IgnoreBufferOnNew ==
    (Returned /\ FGt(trade_buffer, Zero)) =>
        \A i \in Book :
            /\ (StartWeight(i) = Zero /\ FLe(FAbs(target_weight[i]), trade_buffer)) =>
                  result.adj_target_weight[i] =
                      IF ignore_buffer_on_new THEN target_weight[i] ELSE Zero
            /\ StartWeight(i) # Zero =>
                  result.adj_target_weight[i] = OtherFlagTarget[i]

\* a new position was opened inside the band beside an open position whose
\* target also lies inside the band
C4_Witness ==
    /\ Returned /\ FGt(trade_buffer, Zero) /\ ignore_buffer_on_new
    /\ \E i, j \in Book :
          /\ StartWeight(i) = Zero /\ target_weight[i] # Zero
          /\ FLe(FAbs(target_weight[i]), trade_buffer)
          /\ result.adj_target_weight[i] = target_weight[i]
          /\ StartWeight(j) # Zero
          /\ FLe(FAbs(target_weight[j]), trade_buffer)

\* C5 as stated: with trade_buffer = 0 and both flags false, for every
\* instrument (target_weight possibly undefined) adjusted_target_weight equals
\* target_weight and adjusted_delta_weight equals target_weight - start_weight.
C5_ZeroBufferAnyTarget ==
    (Returned /\ trade_buffer = Zero /\ ~ignore_buffer_on_new /\ ~liquidate_on_nan) =>
        \A i \in Book :
            /\ result.adj_target_weight[i] = target_weight[i]
            /\ result.adj_delta_weight[i] = FSub(target_weight[i], StartWeight(i))

\* C5 amended: with trade_buffer = 0 and both flags false, every instrument
\* with a defined target_weight has adjusted_target_weight = target_weight and
\* adjusted_delta_weight = target_weight - start_weight; every instrument with
\* an undefined target_weight has adjusted_target_weight = start_weight and
\* adjusted_delta_weight = 0.
C5_ZeroBufferDefinedTarget ==
    (Returned /\ trade_buffer = Zero /\ ~ignore_buffer_on_new /\ ~liquidate_on_nan) =>
        \A i \in Book :
            IF IsNaN(target_weight[i])
            THEN /\ result.adj_target_weight[i] = StartWeight(i)
                 /\ result.adj_delta_weight[i] = Zero
            ELSE /\ result.adj_target_weight[i] = target_weight[i]
                 /\ result.adj_delta_weight[i] = FSub(target_weight[i], StartWeight(i))

\* with a zero buffer one instrument was moved down to its target and another
\* has no view and an open position
C5_Witness ==
    /\ Returned /\ trade_buffer = Zero /\ ~ignore_buffer_on_new /\ ~liquidate_on_nan
    /\ \E i, j \in Book :
          /\ ~IsNaN(target_weight[i])
          /\ FGt(StartWeight(i), target_weight[i])
          /\ result.adj_target_weight[i] = target_weight[i]
          /\ IsNaN(target_weight[j]) /\ StartWeight(j) # Zero

\* the second call ran on the holdings the first call's trade produced
Rebalanced ==
    /\ pc = "reallocated"
    /\ result.start_weight = first.adj_target_weight

\* C10 as stated: for any flags and any target_weight, once the returned trade
\* is executed a second call with the same target_weight, trade_buffer and
\* flags returns adjusted_delta_weight = 0 and trade_value = 0 everywhere.
C10_FixedPointAnyFlags ==
    Rebalanced =>
        \A i \in Book :
            result.adj_delta_weight[i] = Zero /\ result.trade_value[i] = Zero

\* the instruments ignore_buffer_on_new opens on the second call: brought to
\* weight 0 by the first call while the target is nonzero and within the band
Reopened(i) ==
    /\ ignore_buffer_on_new
    /\ first.adj_target_weight[i] = Zero
    /\ target_weight[i] # Zero
    /\ FLe(FAbs(target_weight[i]), trade_buffer)

\* C10 amended: the second call returns adjusted_delta_weight = 0 and
\* trade_value = 0 for every instrument, except that with ignore_buffer_on_new
\* an instrument the first call brought to weight 0 whose target_weight is
\* nonzero and within trade_buffer of 0 is opened at target_weight.
C10_FixedPoint ==
    Rebalanced =>
        \A i \in Book :
            IF Reopened(i)
            THEN /\ result.adj_target_weight[i] = target_weight[i]
                 /\ result.adj_delta_weight[i] = target_weight[i]
            ELSE /\ result.adj_delta_weight[i] = Zero
                 /\ result.trade_value[i] = Zero

\* the first call traded every instrument, one of them by liquidation, and
\* the second call traded none
C10_Witness ==
    /\ Rebalanced /\ liquidate_on_nan
    /\ \A i \in Book : first.adj_delta_weight[i] # Zero /\ ~Reopened(i)
    /\ \E i \in Book : IsNaN(target_weight[i])
    /\ \A i \in Book : result.trade_value[i] = Zero

====
